---------------------------- MODULE Spec2Model ----------------------------
(***************************************************************************)
(* The AI Nutrition Advisor (src/app.py): a Streamlit script that collects *)
(* a profile, builds three prompts, hands them to a sequential crew and    *)
(* renders the final text with a download button.                          *)
(*                                                                         *)
(* One behaviour of the model is one browser session.  Streamlit executes  *)
(* the whole script again on every widget interaction; each execution      *)
(* starts from an empty page, so everything the page shows is written by   *)
(* the current execution only.  The run that follows a button press is     *)
(* broken at the calls into the orchestration library (agent creation,     *)
(* task creation, crew creation, the execution of each task), because      *)
(* each of them may raise.                                                 *)
(***************************************************************************)
EXTENDS Integers, Sequences, FiniteSets, TLC

VARIABLES
    env,          \* os.environ after load_dotenv(): name -> value or None
    pc,           \* position of the script
    widgets,      \* the values held by the form widgets
    pressed,      \* value of st.button(...) in the current execution
    user_info,    \* the dict built at lines 206-217 by the current execution
    warnings,     \* st.warning messages of the current execution
    errors,       \* st.error messages of the current execution
    summary,      \* st.json bodies shown in the summary expander
    success,      \* st.success messages of the current execution
    plan,         \* bodies displayed by st.markdown(result)
    download,     \* the st.download_button elements offered
    agents,       \* the tuple returned by create_agents, or None
    tasks,        \* the list returned by create_tasks, empty before
    crew,         \* the Crew returned by create_crew, or None
    executed,     \* the crew's log: one entry per task execution, in order
    raised,       \* the exceptions raised and caught in the current execution
    result,       \* value of `result` at line 234, or None
    advisorCalls, \* calls of run_nutrition_advisor in the current execution
    kickoffs      \* calls of crew.kickoff in the current execution

vars == <<env, pc, widgets, pressed, user_info, warnings, errors, summary,
          success, plan, download, agents, tasks, crew, executed, raised,
          result, advisorCalls, kickoffs>>

None == [none |-> TRUE]

-----------------------------------------------------------------------------
(* Python values *)

\* not v, for a Python str or list: only the empty one is falsy
Not(v) == Len(v) = 0

\* a or b, for a Python str or list a
Or(a, b) == IF Not(a) THEN b ELSE a

Digit(d) == SubSeq("0123456789", d + 1, d + 1)

\* str(n) / f"{n}" of a non-negative int
RECURSIVE IntToStr(_)
IntToStr(n) == IF n < 10 THEN Digit(n) ELSE IntToStr(n \div 10) \o Digit(n % 10)

\* sep.join(list)
RECURSIVE Join(_, _)
Join(sep, list) ==
    IF list = <<>> THEN ""
    ELSE IF Len(list) = 1 THEN list[1]
    ELSE list[1] \o sep \o Join(sep, Tail(list))

-----------------------------------------------------------------------------
(* The form: lines 163-201 *)

MaxAge == 120
DefaultAge == 30

GenderOptions == <<"Male", "Female", "Non-binary/Other">>

GoalOptions ==
    <<"Weight Loss", "Weight Gain", "Maintenance", "Muscle Building",
      "Better Energy", "Improved Athletic Performance", "Disease Management",
      "General Health">>

ActivityOptions ==
    <<"Sedentary", "Lightly Active", "Moderately Active", "Very Active",
      "Extremely Active">>

BudgetOptions ==
    <<"Very Limited", "Budget Conscious", "Moderate", "Flexible", "No Constraints">>

\* The state of the widgets when the page is first opened.
DefaultWidgets ==
    [age |-> DefaultAge,
     gender |-> GenderOptions[1],
     height |-> "5'10\"",
     weight |-> "160 lbs",
     goals |-> <<>>,
     activity_level |-> ActivityOptions[1],
     medical_conditions |-> "",
     allergies |-> "",
     location |-> "",
     budget |-> BudgetOptions[1]]

\* Largest number of goals selected at once.
MaxGoals == 2

\* The options that get selected.
GoalPicks == {GoalOptions[1], GoalOptions[4]}

\* A multiselect holds the chosen options, each once, in the order chosen.
GoalSelections ==
    {s \in UNION {[1..n -> GoalPicks] : n \in 0..MaxGoals} :
        \A i, j \in 1..Len(s) : i # j => s[i] # s[j]}

\* The values each widget is given.
Inputs(w) ==
    CASE w = "age" -> {DefaultAge, MaxAge}
      [] w = "gender" -> {GenderOptions[1], GenderOptions[2]}
      [] w = "height" -> {"5'10\"", "178 cm"}
      [] w = "weight" -> {"160 lbs", "73 kg"}
      [] w = "goals" -> GoalSelections
      [] w = "activity_level" -> {ActivityOptions[1], ActivityOptions[3]}
      [] w = "medical_conditions" -> {"", " ", "Diabetes Type 2"}
      [] w = "allergies" -> {"", " ", "Gluten"}
      [] w = "location" -> {"", " ", "Noida"}
      [] w = "budget" -> {BudgetOptions[1], BudgetOptions[3]}

Widgets == DOMAIN DefaultWidgets

\* lines 206-217
CollectUserInfo(w) ==
    [age |-> w.age,
     gender |-> w.gender,
     height |-> w.height,
     weight |-> w.weight,
     activity_level |-> w.activity_level,
     goals |-> IF Not(w.goals) THEN "General health improvement" ELSE Join(", ", w.goals),
     medical_conditions |-> Or(w.medical_conditions, "None reported"),
     allergies |-> Or(w.allergies, "None reported"),
     budget |-> w.budget,
     location |-> Or(w.location, "No specific factors")]

-----------------------------------------------------------------------------
(* Environment: lines 9-11 and 219-221 *)

EnvNames == {"SERPER_API_KEY", "GOOGLE_API_KEY", "Google_API_KEY"}

\* os.getenv(name): the value, or None
Environments == [EnvNames -> {None, [value |-> "key"]}]

\* os.environ[name] = value raises TypeError unless value is a str
SetEnvRaises(value) == value = None

\* lines 10-11: the module copies both credentials back into os.environ
StartupRaises(e) ==
    SetEnvRaises(e["SERPER_API_KEY"]) \/ SetEnvRaises(e["GOOGLE_API_KEY"])

\* line 220
KeysNotDetected(e) == e["SERPER_API_KEY"] = None \/ e["Google_API_KEY"] = None

\* line 221 (without the leading sign)
KeyWarning ==
    "API keys not detected. Please add your SERPER_API_KEY and Google_API_KEY to your .env file."

CredentialWarnings(e) == IF KeysNotDetected(e) THEN <<KeyWarning>> ELSE <<>>

-----------------------------------------------------------------------------
(* Agents: lines 21-61 *)

search_tool == "SerperDevTool"

create_agents ==
    <<[role |-> "Nutrition Specialist",
       goal |-> "Research and develop personalized nutritional recommendations based on scientific evidence",
       tools |-> <<search_tool>>, memory |-> TRUE, allow_delegation |-> TRUE],
      [role |-> "Medical Nutrition Therapist",
       goal |-> "Analyze medical conditions and provide appropriate dietary modifications",
       tools |-> <<search_tool>>, memory |-> FALSE, allow_delegation |-> FALSE],
      [role |-> "Therapeutic Diet Planner",
       goal |-> "Create detailed, practical and enjoyable meal plans tailored to individual needs",
       tools |-> <<>>, memory |-> FALSE, allow_delegation |-> FALSE]>>

-----------------------------------------------------------------------------
(* Prompts: lines 63-122 *)

\* lines 68-81
demographics_research_description(info) ==
    "Research nutritional needs for an individual with the following demographics:\n"
    \o "            - Age: "
    \o IntToStr(info.age)
    \o "\n"
    \o "            - Gender: "
    \o info.gender
    \o "\n"
    \o "            - Height: "
    \o info.height
    \o "\n"
    \o "            - Weight: "
    \o info.weight
    \o "\n"
    \o "            - Activity Level: "
    \o info.activity_level
    \o "\n"
    \o "            - Goals: "
    \o info.goals
    \o "\n"
    \o "            \n"
    \o "            Provide detailed nutritional requirements including:\n"
    \o "            1. Caloric needs (basal and adjusted for activity)\n"
    \o "            2. Macronutrient distribution (proteins, carbs, fats)\n"
    \o "            3. Key micronutrients particularly important for this demographic\n"
    \o "            4. Hydration requirements\n"
    \o "            5. Meal timing and frequency recommendations"

\* lines 88-97
medical_analysis_description(info) ==
    "Analyze the following medical conditions and medications, then provide dietary modifications:\n"
    \o "            - Medical Conditions: "
    \o info.medical_conditions
    \o "\n"
    \o "            - Allergies/Intolerances: "
    \o info.allergies
    \o "\n"
    \o "            \n"
    \o "            Consider the baseline nutritional profile and provide:\n"
    \o "            1. Specific nutrients to increase or limit based on each condition\n"
    \o "            2. Food-medication interactions to avoid\n"
    \o "            3. Potential nutrient deficiencies associated with these conditions/medications\n"
    \o "            4. Foods that may help manage symptoms or improve outcomes\n"
    \o "            5. Foods to strictly avoid"

\* the goals repeated in the last prompt
diet_plan_description_with_goals(info) ==
    "Create a detailed, practical diet plan incorporating all information:\n"
    \o "            - Goals: " \o info.goals \o "\n"
    \o "            - Budget Constraints: " \o info.budget \o "\n"
    \o "            - location's geography / Local Staples: " \o info.location \o "\n"

\* lines 105-116
diet_plan_description(info) ==
    "Create a detailed, practical diet plan incorporating all information:\n"
    \o "            - Budget Constraints: "
    \o info.budget
    \o "\n"
    \o "            - location's geography / Local Staples: "
    \o info.location
    \o "\n"
    \o "\n"
    \o "            Develop a comprehensive nutrition plan that includes:\n"
    \o "            1. Specific foods to eat daily, weekly, and occasionally with portion sizes\n"
    \o "            2. A 7-day meal plan with specific meals and recipes in tabular format\n"
    \o "            3. Meal preparation tips and simple recipes\n"
    \o "            4. Eating out guidelines and suggested restaurant options/orders\n"
    \o "            5. Supplement recommendations if necessary (with scientific justification)\n"
    \o "            5. Hydration schedule and recommended beverages\n"
    \o "            6. How to monitor progress and potential adjustments over time"


\* Task(description, agent, context, expected_output); a context is a list of
\* the Task objects whose outputs the task is given.
Task(name, description, agent, context, expected_output) ==
    [name |-> name, description |-> description, agent |-> agent,
     context |-> context, expected_output |-> expected_output]

\* context=[medical_analysis] on the last task - the first output is left out
create_tasks_short_context(nutritionist, medical_specialist, diet_planner, info) ==
    LET demographics_research ==
            Task("demographics_research", demographics_research_description(info),
                 nutritionist, <<>>,
                 "A comprehensive nutritional profile with scientific rationale")
        medical_analysis ==
            Task("medical_analysis", medical_analysis_description(info),
                 medical_specialist, <<demographics_research.name>>,
                 "A detailed analysis of medical nutrition therapy adjustments")
        diet_plan ==
            Task("diet_plan", diet_plan_description(info),
                 diet_planner, <<medical_analysis.name>>,
                 "A comprehensive, practical, and personalized nutrition plan")
    IN  <<demographics_research, medical_analysis, diet_plan>>

\* lines 63-122
create_tasks(nutritionist, medical_specialist, diet_planner, info) ==
    LET demographics_research ==
            Task("demographics_research", demographics_research_description(info),
                 nutritionist, <<>>,
                 "A comprehensive nutritional profile with scientific rationale")
        medical_analysis ==
            Task("medical_analysis", medical_analysis_description(info),
                 medical_specialist, <<demographics_research.name>>,
                 "A detailed analysis of medical nutrition therapy adjustments")
        diet_plan ==
            Task("diet_plan", diet_plan_description(info),
                 diet_planner, <<demographics_research.name, medical_analysis.name>>,
                 "A comprehensive, practical, and personalized nutrition plan")
    IN  <<demographics_research, medical_analysis, diet_plan>>

\* tasks=tasks[::-1] - the crew is given the list backwards
create_crew_reversed(crewAgents, crewTasks) ==
    [agents |-> crewAgents,
     tasks |-> [i \in 1..Len(crewTasks) |-> crewTasks[Len(crewTasks) + 1 - i]],
     process |-> "sequential"]

\* lines 124-130
create_crew(crewAgents, crewTasks) ==
    [agents |-> crewAgents, tasks |-> crewTasks, process |-> "sequential"]

-----------------------------------------------------------------------------
(* The crew: crew.kickoff() at line 146, with process=Process.sequential *)

\* What the model backend answers for a task.  The text is opaque to the
\* program; the final answer may be empty.
ModelReplies(t) ==
    CASE t.name = "demographics_research" -> {"profile: 2200 kcal, 25% protein"}
      [] t.name = "medical_analysis" -> {"limit: sugar; avoid: gluten"}
      [] t.name = "diet_plan" -> {"", "| Day | Meal |\n|---|---|\n| Mon | Dal, rice |"}

\* The outputs handed to a task: those of the tasks of its context, in the
\* order of the context, as far as they have been produced.
ContextOutputs(t, log) ==
    [j \in 1..Len(t.context) |->
        [task |-> t.context[j],
         output |-> IF \E k \in 1..Len(log) : log[k].task = t.context[j]
                    THEN <<log[CHOOSE k \in 1..Len(log) : log[k].task = t.context[j]].raw>>
                    ELSE <<>>]]

\* The value crew.kickoff() returns: the output of the last task executed.
KickoffOutput(log) == [raw |-> log[Len(log)].raw]

\* str(result)
Str(r) == r.raw

\* `if result:` at line 236.  None is falsy; a result whose text is empty is
\* taken to be falsy too, as an empty str is.
Truthy(r) == IF r = None THEN FALSE ELSE ~Not(Str(r))

\* What the failing calls raise (str(e)).
Exceptions == {"429 quota exceeded"}
RenderExceptions == {"bad markdown"}

-----------------------------------------------------------------------------
(* The page: lines 153-249 *)

\* `if goals is None:` - a multiselect returns a list, never None
GoalsMissing_IsNone(goals) == Len(goals) < 0

\* line 225
GoalsMissing(goals) == Not(goals)

GoalsError == "Please select at least one nutrition goal."

\* `except Exception: pass` - the failure is swallowed
ErrorReport_Silent(e) == <<>>

\* line 150: the handler's message
ErrorReport(e) == <<"An error occurred: " \o e>>

\* `return str(e)` - the handler hands the failure back as if it were a plan
ExceptionResult_Text == [raw |-> "429 quota exceeded"]

\* line 151: the value the handler returns
ExceptionResult == None

\* the display failure reported through the handler of the run
RenderErrorReport_AsRunError(e) == ErrorReport(e)

\* lines 241-242
RenderErrorReport(e) == <<"Error displaying nutrition plan: " \o e>>

\* line 237 (without the leading sign)
SuccessBanner == "Your personalized nutrition plan is ready!"

\* data=repr(result) - the text wrapped in quotes
DownloadData_Repr(r) == "'" \o Str(r) \o "'"

\* line 246
DownloadData(r) == Str(r)

\* lines 244-249

DownloadButton(r) ==
    [label |-> "Download Nutrition Plan", data |-> DownloadData(r),
     file_name |-> "my_nutrition_plan.txt", mime |-> "text/markdown"]

Running == {"agents", "tasks", "crew", "kickoff", "running"}

Init ==
    /\ env \in Environments
    /\ pc = "boot"
    /\ widgets = DefaultWidgets
    /\ pressed = FALSE
    /\ user_info = None
    /\ warnings = <<>>
    /\ errors = <<>>
    /\ summary = <<>>
    /\ success = <<>>
    /\ plan = <<>>
    /\ download = <<>>
    /\ agents = None
    /\ tasks = <<>>
    /\ crew = None
    /\ executed = <<>>
    /\ raised = <<>>
    /\ result = None
    /\ advisorCalls = 0
    /\ kickoffs = 0

\* Lines 1-223 of one execution of the script with the widget values w: the
\* page starts empty, user_info is rebuilt and the credential check is made.
TopOfScript(w) ==
    /\ widgets' = w
    /\ user_info' = CollectUserInfo(w)
    /\ warnings' = CredentialWarnings(env)
    /\ success' = <<>>
    /\ plan' = <<>>
    /\ download' = <<>>
    /\ agents' = None
    /\ tasks' = <<>>
    /\ crew' = None
    /\ executed' = <<>>
    /\ raised' = <<>>
    /\ result' = None
    /\ kickoffs' = 0
    /\ UNCHANGED env

\* An execution in which the button is not pressed ends at line 224.
NoSubmission ==
    /\ pressed' = FALSE
    /\ errors' = <<>>
    /\ summary' = <<>>
    /\ advisorCalls' = 0
    /\ pc' = "idle"

\* The server starts the script: lines 9-20, then the first page.
Startup ==
    /\ pc = "boot"
    /\ IF StartupRaises(env)
       THEN /\ pc' = "crashed"
            /\ UNCHANGED <<env, widgets, pressed, user_info, warnings, errors,
                           summary, success, plan, download, agents, tasks,
                           crew, executed, raised, result, advisorCalls,
                           kickoffs>>
       ELSE TopOfScript(DefaultWidgets) /\ NoSubmission

\* The user changes one widget; the script runs again, button not pressed.
Interact ==
    /\ pc = "idle"
    /\ \E w \in Widgets : \E v \in Inputs(w) :
          /\ v # widgets[w]
          /\ TopOfScript([widgets EXCEPT ![w] = v])
    /\ NoSubmission

\* The user presses "Generate Nutrition Plan": lines 224-234, up to the call
\* of run_nutrition_advisor.
Submit ==
    /\ pc = "idle"
    /\ TopOfScript(widgets)
    /\ pressed' = TRUE
    /\ IF GoalsMissing(widgets.goals)
       THEN /\ errors' = <<GoalsError>>
            /\ summary' = <<>>
            /\ advisorCalls' = 0
            /\ pc' = "idle"
       ELSE /\ errors' = <<>>
            /\ summary' = <<user_info'>>
            /\ advisorCalls' = 1
            /\ pc' = "agents"

\* line 136
CreateAgents ==
    /\ pc = "agents"
    /\ agents' = create_agents
    /\ pc' = "tasks"
    /\ UNCHANGED <<env, widgets, pressed, user_info, warnings, errors, summary,
                   success, plan, download, tasks, crew, executed, raised,
                   result, advisorCalls, kickoffs>>

\* line 139
CreateTasks ==
    /\ pc = "tasks"
    /\ tasks' = create_tasks(agents[1], agents[2], agents[3], user_info)
    /\ pc' = "crew"
    /\ UNCHANGED <<env, widgets, pressed, user_info, warnings, errors, summary,
                   success, plan, download, agents, crew, executed, raised,
                   result, advisorCalls, kickoffs>>

\* line 142
CreateCrew ==
    /\ pc = "crew"
    /\ crew' = create_crew(agents, tasks)
    /\ pc' = "kickoff"
    /\ UNCHANGED <<env, widgets, pressed, user_info, warnings, errors, summary,
                   success, plan, download, agents, tasks, executed, raised,
                   result, advisorCalls, kickoffs>>

\* lines 145-146: crew.kickoff() is entered
Kickoff ==
    /\ pc = "kickoff"
    /\ kickoffs' = kickoffs + 1
    /\ pc' = "running"
    /\ UNCHANGED <<env, widgets, pressed, user_info, warnings, errors, summary,
                   success, plan, download, agents, tasks, crew, executed,
                   raised, result, advisorCalls>>

\* Inside kickoff: the sequential process executes the next task of the
\* crew's list, handing it the outputs of its context.
ExecuteTask ==
    /\ pc = "running"
    /\ Len(executed) < Len(crew.tasks)
    /\ LET t == crew.tasks[Len(executed) + 1] IN
          \E raw \in ModelReplies(t) :
             executed' = Append(executed,
                                [task |-> t.name, agent |-> t.agent.role,
                                 context |-> ContextOutputs(t, executed),
                                 raw |-> raw])
    /\ UNCHANGED <<env, pc, widgets, pressed, user_info, warnings, errors,
                   summary, success, plan, download, agents, tasks, crew,
                   raised, result, advisorCalls, kickoffs>>

\* Lines 234-249 once run_nutrition_advisor has returned r, with the errors
\* errs on the page so far.  st.markdown(result) may raise; the download
\* button follows the try statement.
ShowResult(r, errs, exc) ==
    /\ result' = r
    /\ IF Truthy(r)
       THEN /\ success' = <<SuccessBanner>>
            /\ \/ /\ plan' = <<Str(r)>>
                  /\ errors' = errs
                  /\ raised' = exc
               \/ \E e \in RenderExceptions :
                     /\ plan' = <<>>
                     /\ errors' = errs \o RenderErrorReport(e)
                     /\ raised' = Append(exc, [at |-> "render", error |-> e])
            /\ download' = <<DownloadButton(r)>>
       ELSE /\ success' = <<>>
            /\ plan' = <<>>
            /\ download' = <<>>
            /\ errors' = errs
            /\ raised' = exc
    /\ pc' = "idle"

\* kickoff returns the crew's output and run_nutrition_advisor returns it
\* (line 148); its locals are gone, the log of the finished kickoff is kept.
ReturnResult ==
    /\ pc = "running"
    /\ Len(executed) = Len(crew.tasks)
    /\ ShowResult(KickoffOutput(executed), errors, raised)
    /\ agents' = None
    /\ tasks' = <<>>
    /\ crew' = None
    /\ UNCHANGED <<env, widgets, pressed, user_info, warnings, summary,
                   executed, advisorCalls, kickoffs>>

\* A call of lines 136-146 raises: the handler of lines 149-151 reports it
\* and returns; the crew and what it had done are gone.
RaiseError ==
    /\ pc \in Running
    /\ \E e \in Exceptions :
          ShowResult(ExceptionResult, errors \o ErrorReport(e),
                     Append(raised, [at |-> pc, error |-> e]))
    /\ agents' = None
    /\ tasks' = <<>>
    /\ crew' = None
    /\ executed' = <<>>
    /\ UNCHANGED <<env, widgets, pressed, user_info, warnings, summary,
                   advisorCalls, kickoffs>>

Next ==
    \/ Startup
    \/ Interact
    \/ Submit
    \/ CreateAgents
    \/ CreateTasks
    \/ CreateCrew
    \/ Kickoff
    \/ ExecuteTask
    \/ ReturnResult
    \/ RaiseError

Spec == Init /\ [][Next]_vars

-----------------------------------------------------------------------------
(* The prompts on their own: the form already holds a profile, the user     *)
(* presses the button and the run goes as far as create_tasks.              *)

\* Largest number of widgets that differ from the freshly opened form.
MaxEdits == 3

Profiles ==
    {p \in [age : Inputs("age"), gender : Inputs("gender"),
            height : Inputs("height"), weight : Inputs("weight"),
            goals : Inputs("goals"), activity_level : Inputs("activity_level"),
            medical_conditions : Inputs("medical_conditions"),
            allergies : Inputs("allergies"), location : Inputs("location"),
            budget : Inputs("budget")] :
        Cardinality({w \in Widgets : p[w] # DefaultWidgets[w]}) <= MaxEdits}

\* The page as Interact leaves it, for a profile of Profiles.
PromptInit ==
    /\ env \in {e \in Environments : ~StartupRaises(e)}
    /\ pc = "idle"
    /\ widgets \in Profiles
    /\ pressed = FALSE
    /\ user_info = CollectUserInfo(widgets)
    /\ warnings = CredentialWarnings(env)
    /\ errors = <<>>
    /\ summary = <<>>
    /\ success = <<>>
    /\ plan = <<>>
    /\ download = <<>>
    /\ agents = None
    /\ tasks = <<>>
    /\ crew = None
    /\ executed = <<>>
    /\ raised = <<>>
    /\ result = None
    /\ advisorCalls = 0
    /\ kickoffs = 0

PromptNext ==
    \/ Submit
    \/ CreateAgents
    \/ CreateTasks

PromptSpec == PromptInit /\ [][PromptNext]_vars

-----------------------------------------------------------------------------
(* Properties *)

\* sub occurs in text
Contains(text, sub) ==
    \E i \in 1..(Len(text) - Len(sub) + 1) : SubSeq(text, i, i + Len(sub) - 1) = sub

\* text is empty or holds spaces only
IsBlank(text) == \A i \in 1..Len(text) : SubSeq(text, i, i) = " "

RunRaised == \E k \in 1..Len(raised) : raised[k].at \in Running
RenderRaised == \E k \in 1..Len(raised) : raised[k].at = "render"
Submitted == pressed /\ pc = "idle"

\* C1: a submission with no goal selected never calls run_nutrition_advisor
\* or crew.kickoff, shows the message asking for a goal, and shows no plan,
\* no success banner and no download.
C1_EmptyGoalsRejected ==
    (pressed /\ Len(widgets.goals) = 0) =>
        /\ pc = "idle"
        /\ advisorCalls = 0
        /\ kickoffs = 0
        /\ executed = <<>>
        /\ errors = <<"Please select at least one nutrition goal.">>
        /\ success = <<>>
        /\ plan = <<>>
        /\ download = <<>>

C1_Witness ==
    /\ pressed
    /\ widgets.goals = <<>>
    /\ widgets.medical_conditions = "Diabetes Type 2"
    /\ widgets.age = MaxAge
    /\ errors # <<>>

\* C2: when a call of the run raises, run_nutrition_advisor returns None, the
\* page shows exactly one error message, and no plan, success banner or
\* download is shown.
C2_ErrorGivesNoResult ==
    RunRaised =>
        /\ pc = "idle"
        /\ result = None
        /\ errors = <<"An error occurred: " \o raised[1].error>>
        /\ success = <<>>
        /\ plan = <<>>
        /\ download = <<>>

C2_Witness ==
    /\ RunRaised
    /\ raised[1].at = "running"
    /\ kickoffs = 1
    /\ Len(errors) = 1

Fallback(f) == IF f = "location" THEN "No specific factors" ELSE "None reported"

\* C3: a blank medical conditions, allergies or location field (empty or
\* whitespace only) reaches user_info as its fallback literal; a non-blank
\* one reaches it unchanged.
C3_BlankReplaced ==
    user_info # None =>
        \A f \in {"medical_conditions", "allergies", "location"} :
            user_info[f] = IF IsBlank(widgets[f]) THEN Fallback(f) ELSE widgets[f]

\* C4: create_tasks returns the three tasks demographics research, medical
\* analysis, diet plan in this order; the first has no context, the second
\* has the first, the third has the first and the second, in this order.
C4_ThreeTasksFixedContext ==
    tasks # <<>> =>
        /\ Len(tasks) = 3
        /\ tasks[1].name = "demographics_research"
        /\ tasks[2].name = "medical_analysis"
        /\ tasks[3].name = "diet_plan"
        /\ tasks[1].context = <<>>
        /\ tasks[2].context = <<tasks[1].name>>
        /\ tasks[3].context = <<tasks[1].name, tasks[2].name>>

C4_Witness ==
    /\ tasks # <<>>
    /\ Len(widgets.goals) = 2
    /\ widgets.location = "Noida"
    /\ widgets.allergies = " "

\* C5: with a credential absent from the environment the application still
\* starts and shows the credential warning.
C5_StartsWithoutCredential ==
    (pc # "boot" /\ (env["SERPER_API_KEY"] = None \/ env["GOOGLE_API_KEY"] = None)) =>
        /\ pc # "crashed"
        /\ Len(warnings) = 1

TaskOrder == <<"demographics_research", "medical_analysis", "diet_plan">>

\* C6: the crew executes the tasks in declaration order, each once; the
\* second is handed the first's output, the third the first's and the
\* second's; a run that returns hands back the third task's output only.
C6_SequentialOrder ==
    /\ Len(executed) <= 3
    /\ \A k \in 1..Len(executed) : executed[k].task = TaskOrder[k]
    /\ Len(executed) >= 1 => executed[1].context = <<>>
    /\ Len(executed) >= 2 =>
          executed[2].context =
              <<[task |-> TaskOrder[1], output |-> <<executed[1].raw>>]>>
    /\ Len(executed) >= 3 =>
          executed[3].context =
              <<[task |-> TaskOrder[1], output |-> <<executed[1].raw>>],
                [task |-> TaskOrder[2], output |-> <<executed[2].raw>>]>>
    /\ (Submitted /\ result # None) =>
          /\ Len(executed) = 3
          /\ result = [raw |-> executed[3].raw]

C6_Witness ==
    /\ Submitted
    /\ result # None
    /\ Len(executed) = 3
    /\ plan # <<>>

\* C7: whenever a plan is shown the download offers exactly the text shown;
\* a download is offered only for a result and only with the result's text.
C7_DownloadIsPlan ==
    /\ plan # <<>> =>
          /\ Len(plan) = 1
          /\ Len(download) = 1
          /\ download[1].data = plan[1]
    /\ download # <<>> =>
          /\ Len(download) = 1
          /\ result # None
          /\ download[1].data = result.raw

C7_Witness ==
    /\ plan # <<>>
    /\ Contains(plan[1], "|---|")
    /\ download # <<>>

ProfileFields ==
    {"age", "gender", "height", "weight", "activity_level", "goals",
     "medical_conditions", "allergies", "budget", "location"}

\* The task each field belongs to, as the claim has it.
TaskOf(f) ==
    IF f \in {"medical_conditions", "allergies"} THEN 2
    ELSE IF f \in {"budget", "location"} THEN 3
    ELSE 1

\* The bullet that carries a field in a prompt.
Bullet(f, info) ==
    CASE f = "age" -> "- Age: " \o IntToStr(info.age)
      [] f = "gender" -> "- Gender: " \o info.gender
      [] f = "height" -> "- Height: " \o info.height
      [] f = "weight" -> "- Weight: " \o info.weight
      [] f = "activity_level" -> "- Activity Level: " \o info.activity_level
      [] f = "goals" -> "- Goals: " \o info.goals
      [] f = "medical_conditions" -> "- Medical Conditions: " \o info.medical_conditions
      [] f = "allergies" -> "- Allergies/Intolerances: " \o info.allergies
      [] f = "budget" -> "- Budget Constraints: " \o info.budget
      [] f = "location" -> "- location's geography / Local Staples: " \o info.location

ScenarioProfile ==
    /\ widgets.age = 30
    /\ widgets.goals = <<"Weight Loss">>
    /\ widgets.activity_level = "Moderately Active"

\* C8: in the prompts create_tasks returns, every profile field is carried
\* by the description of exactly one task: the demographic fields and the
\* goals by the first, medical conditions and allergies by the second, budget
\* and location by the third.  For age 30, goal Weight Loss and activity
\* Moderately Active the texts "Age: 30", "Weight Loss" and "Moderately
\* Active" occur in the first description and in no other.
C8_FieldsInOnePrompt ==
    pc = "crew" =>
        /\ \A f \in ProfileFields : \A i \in 1..3 :
              Contains(tasks[i].description, Bullet(f, user_info) \o "\n")
                  <=> (i = TaskOf(f))
        /\ ScenarioProfile =>
              \A t \in {"Age: 30", "Weight Loss", "Moderately Active"} :
                  \A i \in 1..3 : Contains(tasks[i].description, t) <=> (i = 1)

C8_Witness ==
    /\ pc = "crew"
    /\ ScenarioProfile
    /\ Contains(tasks[1].description, "- Goals: Weight Loss\n")
    /\ widgets.budget = "Moderate"

ErrorOnly == errors # <<>> /\ plan = <<>> /\ download = <<>>

PlanAndDownload ==
    /\ errors = <<>>
    /\ plan # <<>>
    /\ download # <<>>
    /\ download[1].data = plan[1]

RenderFailed ==
    /\ RenderRaised
    /\ Len(errors) = 1
    /\ plan = <<>>
    /\ Len(download) = 1
    /\ download[1].data = result.raw

EmptyResult ==
    /\ raised = <<>>
    /\ result # None
    /\ result.raw = ""
    /\ errors = <<>>
    /\ plan = <<>>
    /\ download = <<>>

\* C9 as stated: every submission ends either with an error banner and
\* neither plan nor download, or with the plan and a download of its text and
\* no error banner.
C9_ErrorOrPlan == Submitted => (ErrorOnly \/ PlanAndDownload)

\* C9: every submission ends in exactly one of: an error banner with neither
\* plan nor download; the plan with a download of its text and no error
\* banner; after a failed display, one error banner with the download of the
\* result and no plan; after a run that returned an empty result without
\* raising, no banner, no plan and no download.
C9_Outcomes ==
    Submitted =>
        /\ ErrorOnly \/ PlanAndDownload \/ RenderFailed \/ EmptyResult
        /\ ~(ErrorOnly /\ PlanAndDownload)
        /\ ~(RenderFailed /\ (ErrorOnly \/ PlanAndDownload \/ EmptyResult))
        /\ ~(EmptyResult /\ (ErrorOnly \/ PlanAndDownload))

C9_Witness ==
    /\ Submitted
    /\ EmptyResult
    /\ kickoffs = 1
    /\ Len(executed) = 3

\* C10: when showing the returned text fails, the failure is reported with
\* its own message and nothing else, kickoff has been called once, the result
\* is still the crew's output, and the download of that output is offered.
C10_RenderFailureKeepsResult ==
    RenderRaised =>
        /\ pc = "idle"
        /\ Len(raised) = 1
        /\ errors = <<"Error displaying nutrition plan: " \o raised[1].error>>
        /\ advisorCalls = 1
        /\ kickoffs = 1
        /\ Len(executed) = 3
        /\ result = [raw |-> executed[3].raw]
        /\ Len(download) = 1
        /\ download[1].data = executed[3].raw
        /\ download[1].file_name = "my_nutrition_plan.txt"

C10_Witness ==
    /\ RenderRaised
    /\ success # <<>>
    /\ plan = <<>>
    /\ download # <<>>

=============================================================================
